---- MODULE Spec2Model ----
(***************************************************************************)
(* A model of the Result type of simple_monads/result.py (and its older    *)
(* twin pyadt/result.py): the two variants Success and Error, their        *)
(* combinators, the Propagation signal raised by Error.propagate, and the  *)
(* three decorators wrap_result, unwrap_result and stop.                   *)
(*                                                                         *)
(* Python values are records tagged by the field k; an operation's outcome *)
(* is either a returned value or a raised exception.                       *)
(***************************************************************************)
EXTENDS Integers, Sequences, FiniteSets, TLC

(***************************************************************************)
(* Bounds of the model.                                                    *)
(***************************************************************************)
MaxDepth == 4
MaxChain == 3

(***************************************************************************)
(* Python values.                                                          *)
(***************************************************************************)
NoneV == [k |-> "None"]
BoolV(b) == [k |-> "bool", b |-> b]
IntV(n) == [k |-> "int", n |-> n]
StrV(s) == [k |-> "str", s |-> s]

\* An exception instance: its class, its constructor argument and its
\* __cause__ (NoneV when it has none).
Exc(cls, arg, cause) == [k |-> "exc", cls |-> cls, arg |-> arg, cause |-> cause]

\* The base class of each exception class that occurs.
Base(cls) ==
    CASE cls = "BaseException" -> "object"
      [] cls = "Exception" -> "BaseException"
      [] cls = "KeyboardInterrupt" -> "BaseException"
      [] cls = "ValueError" -> "Exception"
      [] cls = "KeyError" -> "Exception"
      [] cls = "UnwrapError" -> "Exception"
      [] cls = "ErrorWrapper" -> "Exception"
      [] cls = "Propagation" -> "Exception"
      [] cls = "AttributeError" -> "Exception"
      [] OTHER -> "object"

RECURSIVE issubclass(_, _)
issubclass(cls, of) ==
    IF cls = of THEN TRUE
    ELSE IF cls = "object" THEN FALSE
    ELSE issubclass(Base(cls), of)

\* isinstance(v, cls) for an exception class cls.
isinstance(v, cls) == v.k = "exc" /\ issubclass(v.cls, cls)

\* `except catch`, where catch is a class or a tuple of classes (here a set).
Matches(exc, catch) == \E c \in catch : isinstance(exc, c)

UnwrapError(msg, cause) == Exc("UnwrapError", msg, cause)
ErrorWrapper(held) == Exc("ErrorWrapper", held, NoneV)
PropagationMsg ==
    StrV("Uncaught Propogation, did you forget to decorate function with @simple_monads.result.stop?")
\* Propagation(err): the message is fixed, the payload is kept in .err
Propagation(err) == [k |-> "exc", cls |-> "Propagation", arg |-> PropagationMsg,
                     cause |-> NoneV, err |-> err]

\* What calling a Result method on a value that is no Result raises.
AttributeError == Exc("AttributeError", StrV("is_ok"), NoneV)

\* The two variants.
Success(held) == [k |-> "Success", held |-> held]
Error(held) == [k |-> "Error", held |-> held]
IsResult(v) == v.k \in {"Success", "Error"}

\* The optional-value collaborator (maybe.py).
Something(held) == [k |-> "Something", held |-> held]
Nothing == [k |-> "Nothing"]

\* bool(v)
Truthy(v) ==
    CASE v.k = "None" -> FALSE
      [] v.k = "bool" -> v.b
      [] v.k = "int" -> v.n # 0
      [] v.k = "str" -> v.s # ""
      [] v.k = "Error" -> FALSE
      [] v.k = "Success" -> TRUE
      [] OTHER -> TRUE

(***************************************************************************)
(* Outcomes of a call: a returned value or a raised exception.             *)
(***************************************************************************)
Return(v) == [k |-> "return", v |-> v]
Raise(exc) == [k |-> "raise", exc |-> exc]

(***************************************************************************)
(* Callbacks handed to the combinators.  None of them fails.  Call(cb, v)  *)
(* is cb(v); Call0(thunk) is thunk().                                      *)
(***************************************************************************)
MapCallbacks == {"identity", "to_none", "to_one"}
ThenCallbacks == {"succeed", "fail", "fail_one"}
Thunks == {"none_thunk", "one_thunk"}

Call(cb, v) ==
    CASE cb = "identity" -> v
      [] cb = "to_none" -> NoneV
      [] cb = "to_one" -> IntV(1)
      [] cb = "succeed" -> Success(v)
      [] cb = "fail" -> Error(v)
      [] cb = "fail_one" -> Error(IntV(1))

Call0(thunk) ==
    CASE thunk = "none_thunk" -> NoneV
      [] thunk = "one_thunk" -> IntV(1)

\* What a method that takes callbacks did: its outcome and the callbacks it
\* invoked, in order.
Did(out, calls) == [out |-> out, calls |-> calls]

\* The text pre + repr(held) + post.
ReprText(pre, held, post) == [k |-> "str", pre |-> pre, held |-> held, post |-> post]

(***************************************************************************)
(* class Error                                                             *)
(***************************************************************************)
Error_repr(self) == Return(ReprText("Error(", self.held, ")"))
Error_bool(self) == FALSE
Error_is_ok == FALSE
Error_is_err == TRUE

DefaultUnwrapMsg == StrV("Attempted to unwrap an Error")
DefaultUnwrapErrMsg == StrV("Attempted to unwrap the error from a Success")

\* Error.unwrap that wraps every held error, error-like or not.
Error_unwrap_always_wraps(self, msg) ==
    Raise(UnwrapError(IF Truthy(msg) THEN msg ELSE DefaultUnwrapMsg,
                      ErrorWrapper(self.held)))

Error_unwrap(self, msg) ==
    LET e == IF isinstance(self.held, "Exception")
             THEN self.held
             ELSE ErrorWrapper(self.held)
    IN  Raise(UnwrapError(IF Truthy(msg) THEN msg ELSE DefaultUnwrapMsg, e))

Error_unwrap_or(self, fallback) == Return(fallback)
Error_unwrap_or_else(self, fallback) == Did(Return(Call0(fallback)), <<fallback>>)
Error_unwrap_err(self, msg) == Return(self.held)
Error_map(self, cb) == Did(Return(Error(self.held)), <<>>)
Error_map_err(self, cb) == Did(Return(Error(Call(cb, self.held))), <<cb>>)
Error_map_or(self, default, cb) == Did(Return(default), <<>>)
Error_map_or_else(self, default, cb) == Did(Return(Call0(default)), <<default>>)
\* Error.and_then that runs the callback on the held error.
Error_and_then_runs_cb(self, cb) == Did(Return(Call(cb, self.held)), <<cb>>)
Error_and_then(self, cb) == Did(Return(Error(self.held)), <<>>)
Error_or_else(self, cb) == Did(Return(Call(cb, self.held)), <<cb>>)
Error_err(self) == Return(Something(self.held))
Error_ok(self) == Return(Nothing)
\* Error.propagate that returns the held error instead of raising.
Error_propagate_returns(self) == Return(self.held)
Error_propagate(self) == Raise(Propagation(self.held))

(***************************************************************************)
(* class Success                                                           *)
(***************************************************************************)
Success_repr(self) == Return(ReprText("Success(", self.held, ")"))
Success_bool(self) == TRUE
Success_is_ok == TRUE
Success_is_err == FALSE
Success_unwrap(self, msg) == Return(self.held)
Success_unwrap_or(self, fallback) == Return(self.held)
Success_unwrap_or_else(self, fallback) == Did(Return(self.held), <<>>)

Success_unwrap_err(self, msg) ==
    Raise(UnwrapError(IF msg.k = "None" THEN DefaultUnwrapErrMsg ELSE msg, NoneV))

Success_map(self, cb) == Did(Return(Success(Call(cb, self.held))), <<cb>>)
Success_map_err(self, cb) == Did(Return(Success(self.held)), <<>>)
Success_map_or(self, default, cb) == Did(Return(Call(cb, self.held)), <<cb>>)
Success_map_or_else(self, default, cb) == Did(Return(Call(cb, self.held)), <<cb>>)
Success_and_then(self, cb) == Did(Return(Call(cb, self.held)), <<cb>>)
Success_or_else(self, cb) == Did(Return(Success(self.held)), <<>>)
Success_err(self) == Return(Nothing)
\* Success.ok that tests the held value for truth.
Success_ok_by_truth(self) ==
    Return(IF Truthy(self.held) THEN Something(self.held) ELSE Nothing)
Success_ok(self) == Return(Something(self.held))
Success_propagate(self) == Return(self.held)

(***************************************************************************)
(* Method dispatch on the variant.                                         *)
(***************************************************************************)
is_ok(r) == IF r.k = "Success" THEN Success_is_ok ELSE Error_is_ok
is_err(r) == IF r.k = "Success" THEN Success_is_err ELSE Error_is_err
bool(r) == IF r.k = "Success" THEN Success_bool(r) ELSE Error_bool(r)
unwrap(r, msg) == IF r.k = "Success" THEN Success_unwrap(r, msg) ELSE Error_unwrap(r, msg)
unwrap_err(r, msg) ==
    IF r.k = "Success" THEN Success_unwrap_err(r, msg) ELSE Error_unwrap_err(r, msg)
propagate(r) == IF r.k = "Success" THEN Success_propagate(r) ELSE Error_propagate(r)
unwrap_or(r, fallback) ==
    IF r.k = "Success" THEN Success_unwrap_or(r, fallback) ELSE Error_unwrap_or(r, fallback)
unwrap_or_else(r, fallback) ==
    IF r.k = "Success" THEN Success_unwrap_or_else(r, fallback)
    ELSE Error_unwrap_or_else(r, fallback)
map(r, cb) == IF r.k = "Success" THEN Success_map(r, cb) ELSE Error_map(r, cb)
map_err(r, cb) == IF r.k = "Success" THEN Success_map_err(r, cb) ELSE Error_map_err(r, cb)
map_or(r, default, cb) ==
    IF r.k = "Success" THEN Success_map_or(r, default, cb) ELSE Error_map_or(r, default, cb)
map_or_else(r, default, cb) ==
    IF r.k = "Success" THEN Success_map_or_else(r, default, cb)
    ELSE Error_map_or_else(r, default, cb)
and_then(r, cb) == IF r.k = "Success" THEN Success_and_then(r, cb) ELSE Error_and_then(r, cb)
or_else(r, cb) == IF r.k = "Success" THEN Success_or_else(r, cb) ELSE Error_or_else(r, cb)
Result_ok(r) == IF r.k = "Success" THEN Success_ok(r) ELSE Error_ok(r)
Result_err(r) == IF r.k = "Success" THEN Success_err(r) ELSE Error_err(r)

(***************************************************************************)
(* The decorators.  Each takes the outcome of the decorated function f and *)
(* gives the outcome of the decorated call.                                *)
(***************************************************************************)
DefaultCatch == {"Exception"}

\* wrap_result that ignores its catch set.
wrap_result_catches_all(catch, f) ==
    IF f.k = "return" THEN Return(Success(f.v)) ELSE Return(Error(f.exc))

\* wrap_result(catch)(f)(...)
wrap_result(catch, f) ==
    IF f.k = "return" THEN Return(Success(f.v))
    ELSE IF Matches(f.exc, catch) THEN Return(Error(f.exc))
    ELSE f

\* unwrap_result that unwraps without asking is_ok() first.
unwrap_result_unchecked(f) ==
    IF f.k = "raise" THEN f
    ELSE IF ~IsResult(f.v) THEN Raise(AttributeError)
    ELSE unwrap(f.v, NoneV)

\* unwrap_result that wraps every held error in ErrorWrapper.
unwrap_result_wraps_all(f) ==
    IF f.k = "raise" THEN f
    ELSE IF ~IsResult(f.v) THEN Raise(AttributeError)
    ELSE IF is_ok(f.v) THEN unwrap(f.v, NoneV)
    ELSE Raise(ErrorWrapper(f.v.held))

\* unwrap_result(f)(...)
unwrap_result(f) ==
    IF f.k = "raise" THEN f
    ELSE LET result == f.v IN
         IF ~IsResult(result) THEN Raise(AttributeError)
         ELSE IF is_ok(result) THEN unwrap(result, NoneV)
         ELSE LET err == unwrap_err(result, NoneV) IN
              IF err.k = "raise" THEN err
              ELSE IF isinstance(err.v, "Exception") THEN Raise(err.v)
              ELSE Raise(ErrorWrapper(err.v))

\* stop that catches every Exception, not only Propagation.
stop_catches_exception(f) ==
    IF f.k = "return" THEN Return(Success(f.v))
    ELSE IF isinstance(f.exc, "Propagation") THEN Return(Error(f.exc.err))
    ELSE IF isinstance(f.exc, "Exception") THEN Return(Error(f.exc))
    ELSE f

\* stop that lets the signal through.
stop_lets_through(f) == IF f.k = "return" THEN Return(Success(f.v)) ELSE f

\* stop(f)(...)
stop(f) ==
    IF f.k = "return" THEN Return(Success(f.v))
    ELSE IF isinstance(f.exc, "Propagation") THEN Return(Error(f.exc.err))
    ELSE f

(***************************************************************************)
(* pyadt/result.py: the older module, with its own UnwrapError and         *)
(* ErrorWrapper classes (of the same names), Error, Success, wrap_result   *)
(* and unwrap_result, and no propagate, stop or Propagation.               *)
(***************************************************************************)
pyadt_UnwrapError(msg, cause) == Exc("UnwrapError", msg, cause)
pyadt_ErrorWrapper(held) == Exc("ErrorWrapper", held, NoneV)
pyadt_Success(held) == [k |-> "Success", held |-> held]
pyadt_Error(held) == [k |-> "Error", held |-> held]

\* pyadt writes no __repr__: @dataclass generates Class(field=value).
pyadt_Error_repr(self) == Return(ReprText("Error(_held=", self.held, ")"))
pyadt_Success_repr(self) == Return(ReprText("Success(_held=", self.held, ")"))

pyadt_Error_bool(self) == FALSE
pyadt_Error_is_ok == FALSE
pyadt_Error_is_err == TRUE

\* Error.unwrap that takes the default message only for msg None.
pyadt_Error_unwrap_none_test(self, msg) ==
    LET e == IF isinstance(self.held, "Exception")
             THEN self.held
             ELSE pyadt_ErrorWrapper(self.held)
    IN  Raise(pyadt_UnwrapError(IF msg.k = "None"
                                THEN StrV("Attempted to unwrap an Error")
                                ELSE msg, e))

pyadt_Error_unwrap(self, msg) ==
    LET e == IF isinstance(self.held, "Exception")
             THEN self.held
             ELSE pyadt_ErrorWrapper(self.held)
    IN  Raise(pyadt_UnwrapError(IF Truthy(msg) THEN msg
                                ELSE StrV("Attempted to unwrap an Error"), e))

pyadt_Error_unwrap_or(self, fallback) == Return(fallback)
pyadt_Error_unwrap_or_else(self, fallback) == Did(Return(Call0(fallback)), <<fallback>>)
pyadt_Error_unwrap_err(self, msg) == Return(self.held)
pyadt_Error_map(self, cb) == Did(Return(pyadt_Error(self.held)), <<>>)
pyadt_Error_map_err(self, cb) == Did(Return(pyadt_Error(Call(cb, self.held))), <<cb>>)
pyadt_Error_map_or(self, default, cb) == Did(Return(default), <<>>)
pyadt_Error_map_or_else(self, default, cb) == Did(Return(Call0(default)), <<default>>)
pyadt_Error_and_then(self, cb) == Did(Return(pyadt_Error(self.held)), <<>>)
pyadt_Error_or_else(self, cb) == Did(Return(Call(cb, self.held)), <<cb>>)
pyadt_Error_err(self) == Return(Something(self.held))
pyadt_Error_ok(self) == Return(Nothing)

pyadt_Success_bool(self) == TRUE
pyadt_Success_is_ok == TRUE
pyadt_Success_is_err == FALSE
pyadt_Success_unwrap(self, msg) == Return(self.held)
pyadt_Success_unwrap_or(self, fallback) == Return(self.held)
pyadt_Success_unwrap_or_else(self, fallback) == Did(Return(self.held), <<>>)

pyadt_Success_unwrap_err(self, msg) ==
    Raise(pyadt_UnwrapError(IF msg.k = "None"
                            THEN StrV("Attempted to unwrap the error from a Success")
                            ELSE msg, NoneV))

pyadt_Success_map(self, cb) == Did(Return(pyadt_Success(Call(cb, self.held))), <<cb>>)
pyadt_Success_map_err(self, cb) == Did(Return(pyadt_Success(self.held)), <<>>)
pyadt_Success_map_or(self, default, cb) == Did(Return(Call(cb, self.held)), <<cb>>)
pyadt_Success_map_or_else(self, default, cb) == Did(Return(Call(cb, self.held)), <<cb>>)
pyadt_Success_and_then(self, cb) == Did(Return(Call(cb, self.held)), <<cb>>)
pyadt_Success_or_else(self, cb) == Did(Return(pyadt_Success(self.held)), <<>>)
pyadt_Success_err(self) == Return(Nothing)
pyadt_Success_ok(self) == Return(Something(self.held))

\* r.<method>(a, b) in pyadt: dispatch on the variant.  Methods without
\* callbacks invoke none.
pyadt_Method(r, op, a, b) ==
    LET S == r.k = "Success" IN
    CASE op = "is_ok" ->
           Did(Return(BoolV(IF S THEN pyadt_Success_is_ok ELSE pyadt_Error_is_ok)), <<>>)
      [] op = "is_err" ->
           Did(Return(BoolV(IF S THEN pyadt_Success_is_err ELSE pyadt_Error_is_err)), <<>>)
      [] op = "bool" ->
           Did(Return(BoolV(IF S THEN pyadt_Success_bool(r) ELSE pyadt_Error_bool(r))), <<>>)
      [] op = "unwrap" ->
           Did(IF S THEN pyadt_Success_unwrap(r, a) ELSE pyadt_Error_unwrap(r, a), <<>>)
      [] op = "unwrap_err" ->
           Did(IF S THEN pyadt_Success_unwrap_err(r, a) ELSE pyadt_Error_unwrap_err(r, a),
               <<>>)
      [] op = "unwrap_or" ->
           Did(IF S THEN pyadt_Success_unwrap_or(r, a) ELSE pyadt_Error_unwrap_or(r, a),
               <<>>)
      [] op = "unwrap_or_else" ->
           IF S THEN pyadt_Success_unwrap_or_else(r, a.name)
           ELSE pyadt_Error_unwrap_or_else(r, a.name)
      [] op = "map" ->
           IF S THEN pyadt_Success_map(r, a.name) ELSE pyadt_Error_map(r, a.name)
      [] op = "map_err" ->
           IF S THEN pyadt_Success_map_err(r, a.name) ELSE pyadt_Error_map_err(r, a.name)
      [] op = "map_or" ->
           IF S THEN pyadt_Success_map_or(r, a, b.name)
           ELSE pyadt_Error_map_or(r, a, b.name)
      [] op = "map_or_else" ->
           IF S THEN pyadt_Success_map_or_else(r, a.name, b.name)
           ELSE pyadt_Error_map_or_else(r, a.name, b.name)
      [] op = "and_then" ->
           IF S THEN pyadt_Success_and_then(r, a.name) ELSE pyadt_Error_and_then(r, a.name)
      [] op = "or_else" ->
           IF S THEN pyadt_Success_or_else(r, a.name) ELSE pyadt_Error_or_else(r, a.name)
      [] op = "ok" -> Did(IF S THEN pyadt_Success_ok(r) ELSE pyadt_Error_ok(r), <<>>)
      [] op = "err" -> Did(IF S THEN pyadt_Success_err(r) ELSE pyadt_Error_err(r), <<>>)
      [] op = "repr" -> Did(IF S THEN pyadt_Success_repr(r) ELSE pyadt_Error_repr(r), <<>>)

\* pyadt's wrap_result(catch)(f)(...)
pyadt_wrap_result(catch, f) ==
    IF f.k = "return" THEN Return(pyadt_Success(f.v))
    ELSE IF Matches(f.exc, catch) THEN Return(pyadt_Error(f.exc))
    ELSE f

\* pyadt's unwrap_result(f)(...)
pyadt_unwrap_result(f) ==
    IF f.k = "raise" THEN f
    ELSE LET r == f.v IN
         IF ~IsResult(r) THEN Raise(AttributeError)
         ELSE IF (IF r.k = "Success" THEN pyadt_Success_is_ok ELSE pyadt_Error_is_ok)
         THEN (IF r.k = "Success" THEN pyadt_Success_unwrap(r, NoneV)
               ELSE pyadt_Error_unwrap(r, NoneV))
         ELSE LET e == IF r.k = "Success" THEN pyadt_Success_unwrap_err(r, NoneV)
                       ELSE pyadt_Error_unwrap_err(r, NoneV)
              IN  IF e.k = "raise" THEN e
                  ELSE IF isinstance(e.v, "Exception") THEN Raise(e.v)
                  ELSE Raise(pyadt_ErrorWrapper(e.v))

(***************************************************************************)
(* Inputs.                                                                 *)
(***************************************************************************)
Absent == [k |-> "absent"]

PlainValues == {IntV(0), NoneV}
InputExceptions == {Exc("ValueError", StrV("bad"), NoneV),
                    Exc("KeyboardInterrupt", NoneV, NoneV)}
Payloads == PlainValues \cup InputExceptions
InputResults == {Success(v) : v \in PlainValues} \cup {Error(e) : e \in Payloads}
Inputs == Payloads \cup InputResults

CatchSets == {DefaultCatch, {"ValueError"}, {"KeyError", "KeyboardInterrupt"}}

\* What a frame of the call stack can be: a plain function, or the inner
\* function of one of the three decorators.
Kinds ==
    {[kind |-> "fn", catch |-> {}], [kind |-> "stop", catch |-> {}],
     [kind |-> "unwrap_result", catch |-> {}]}
    \cup {[kind |-> "wrap_result", catch |-> c] : c \in CatchSets}

(***************************************************************************)
(* The running program: a call stack.                                      *)
(*   stack   the frames, outermost first; the last one is running          *)
(*   acc     the value the running frame last obtained                     *)
(*   signal  the exception being raised, Absent when none is               *)
(*   done    the record of the call that completed in the last step        *)
(* A frame holds                                                           *)
(*   kind, catch   what it is (catch: the catch set of a wrap_result)      *)
(*   called        a decorator's inner function has called f               *)
(*   prop          the payload of the first Error this plain function      *)
(*                 called propagate() on, Absent when there is none        *)
(*   after         a statement of this function ran after that call       *)
(*   absorbed      the payload of a signal that a stop boundary nested     *)
(*                 inside this stop boundary intercepted                   *)
(***************************************************************************)
VARIABLES stack, acc, signal, done

(***************************************************************************)
(* A chain of method calls on one Result.                                  *)
(*   cur         the Result the next method is called on                   *)
(*   lastOp      the method call made in the last step                     *)
(*   steps       the number of calls made                                  *)
(*   sticky      the Error a chain of map/and_then calls has reached,      *)
(*               Absent when it has reached none                           *)
(*   laterCalls  the callbacks that map/and_then calls invoked after the   *)
(*               chain reached that Error                                  *)
(***************************************************************************)
VARIABLES cur, lastOp, steps, sticky, laterCalls

(***************************************************************************)
(* The same chain made with pyadt's Result, beside the one above.          *)
(*   pyCur   the pyadt Result the next method is called on                 *)
(*   pyLast  the pyadt method call made in the last step                   *)
(***************************************************************************)
VARIABLES pyCur, pyLast

flowVars == <<stack, acc, signal, done>>
opsVars == <<cur, lastOp, steps, sticky, laterCalls, pyCur, pyLast>>
vars == <<stack, acc, signal, done, cur, lastOp, steps, sticky, laterCalls,
          pyCur, pyLast>>

Frame(kd) == [kind |-> kd.kind, catch |-> kd.catch, called |-> FALSE,
              prop |-> Absent, after |-> FALSE, absorbed |-> Absent]

NoSub == [kind |-> "none", catch |-> {}, in |-> Absent]
NoCall == [kind |-> "none", catch |-> {}, prop |-> Absent, after |-> FALSE,
           absorbed |-> Absent, in |-> Absent, out |-> Absent, sub |-> NoSub]
NoOp == [op |-> "none", recv |-> Absent, a |-> Absent, b |-> Absent,
         out |-> Absent, calls |-> <<>>]

FlowInit ==
    /\ stack = <<>>
    /\ acc = NoneV
    /\ signal = Absent
    /\ done = NoCall

Init ==
    /\ FlowInit
    /\ cur = NoneV
    /\ lastOp = NoOp
    /\ steps = 0
    /\ sticky = Absent
    /\ laterCalls = 0
    /\ pyCur = NoneV
    /\ pyLast = NoOp

Top == stack[Len(stack)]
\* A plain function is executing its statements.
Running == stack # <<>> /\ signal = Absent /\ Top.kind = "fn"
\* A decorator's inner function has got the outcome of f.
Returned(kind) == stack # <<>> /\ Top.kind = kind /\ Top.called
\* The outcome the frame below the top handed up.
Delivered == IF signal = Absent THEN Return(acc) ELSE Raise(signal)

\* The running frame after it executed one more statement.
Stepped(fr) == [fr EXCEPT !.after = (fr.prop # Absent)]
SetTop(fr) == [stack EXCEPT ![Len(stack)] = fr]

\* x = <an input value>
LoadStmt(v) ==
    /\ Running
    /\ acc # v
    /\ acc' = v
    /\ stack' = SetTop(Stepped(Top))
    /\ done' = NoCall
    /\ UNCHANGED <<signal, opsVars>>

\* x = x.propagate()
PropagateStmt ==
    /\ Running
    /\ IsResult(acc)
    /\ LET which == "propagate"
           o == propagate(acc)
           fr == IF acc.k = "Error" /\ Top.prop = Absent
                 THEN [Stepped(Top) EXCEPT !.prop = acc.held]
                 ELSE Stepped(Top)
       IN  /\ stack' = SetTop(fr)
           /\ IF o.k = "return"
              THEN acc' = o.v /\ signal' = Absent
              ELSE acc' = acc /\ signal' = o.exc
           /\ done' = [NoCall EXCEPT !.kind = which, !.in = Return(acc), !.out = o]
    /\ UNCHANGED opsVars

\* x = x.unwrap()  or  x = x.unwrap_err()
UnwrapStmt(which) ==
    /\ Running
    /\ IsResult(acc)
    /\ LET o == IF which = "unwrap" THEN unwrap(acc, NoneV) ELSE unwrap_err(acc, NoneV)
       IN  /\ stack' = SetTop(Stepped(Top))
           /\ IF o.k = "return"
              THEN acc' = o.v /\ signal' = Absent
              ELSE acc' = acc /\ signal' = o.exc
           /\ done' = [NoCall EXCEPT !.kind = which, !.in = Return(acc), !.out = o]
    /\ UNCHANGED opsVars

\* x = g(): the program, a plain function or a decorator's inner function
\* (which calls the function it decorates, once) calls g.
CallStmt(kd) ==
    /\ signal = Absent
    /\ Len(stack) < MaxDepth
    /\ \/ stack = <<>> /\ stack' = <<Frame(kd)>>
       \/ Running /\ stack' = Append(SetTop(Stepped(Top)), Frame(kd))
       \/ /\ stack # <<>> /\ Top.kind # "fn" /\ ~Top.called
          /\ stack' = Append(SetTop([Top EXCEPT !.called = TRUE]), Frame(kd))
    /\ acc' = NoneV
    /\ done' = NoCall
    /\ UNCHANGED <<signal, opsVars>>

\* The top frame ends with outcome out after getting outcome in: it is
\* popped and its caller gets the value or the exception.
Complete(in, out) ==
    LET fr == Top
        rest == SubSeq(stack, 1, Len(stack) - 1)
        below == {i \in 1..Len(rest) : rest[i].kind = "stop"}
        intercepted == fr.kind = "stop" /\ in.k = "raise" /\ out.k = "return"
    IN  /\ done' = [kind |-> fr.kind, catch |-> fr.catch,
                    prop |-> IF fr.kind = "fn" THEN fr.prop
                             ELSE IF done.kind = "fn" THEN done.prop ELSE Absent,
                    after |-> IF fr.kind = "fn" THEN fr.after
                              ELSE IF done.kind = "fn" THEN done.after ELSE FALSE,
                    absorbed |-> fr.absorbed, in |-> in, out |-> out,
                    sub |-> IF fr.kind = "fn" THEN NoSub
                            ELSE [kind |-> done.kind, catch |-> done.catch,
                                  in |-> done.in]]
        /\ stack' = IF intercepted
                    THEN [i \in 1..Len(rest) |->
                            IF i \in below
                            THEN [rest[i] EXCEPT !.absorbed = in.exc.err]
                            ELSE rest[i]]
                    ELSE rest
        /\ IF out.k = "return"
           THEN acc' = out.v /\ signal' = Absent
           ELSE acc' = NoneV /\ signal' = out.exc
        /\ UNCHANGED opsVars

\* return x
ReturnStmt ==
    /\ Running
    /\ Complete(Return(acc), Return(acc))

\* raise x
RaiseStmt ==
    /\ Running
    /\ acc.k = "exc"
    /\ stack' = SetTop(Stepped(Top))
    /\ signal' = acc
    /\ done' = NoCall
    /\ UNCHANGED <<acc, opsVars>>

\* An exception leaves a plain function.
Unwind ==
    /\ stack # <<>>
    /\ Top.kind = "fn"
    /\ signal # Absent
    /\ Complete(Raise(signal), Raise(signal))

\* stop's inner function, from the return of f on
StopInner ==
    /\ Returned("stop")
    /\ Complete(Delivered, stop(Delivered))

\* wrap_result's inner function, from the return of f on
WrapInner ==
    /\ Returned("wrap_result")
    /\ Complete(Delivered, wrap_result(Top.catch, Delivered))

\* unwrap_result's inner function, from the return of f on
UnwrapInner ==
    /\ Returned("unwrap_result")
    /\ Complete(Delivered, unwrap_result(Delivered))

Next ==
    \/ \E v \in Inputs : LoadStmt(v)
    \/ PropagateStmt
    \/ \E which \in {"unwrap", "unwrap_err"} : UnwrapStmt(which)
    \/ \E kd \in Kinds : CallStmt(kd)
    \/ ReturnStmt
    \/ RaiseStmt
    \/ Unwind
    \/ StopInner
    \/ WrapInner
    \/ UnwrapInner

Spec == Init /\ [][Next]_vars

(***************************************************************************)
(* Method calls on a Result, one after the other: a combinator that gives  *)
(* a Result hands it to the next call, every other method leaves the       *)
(* Result where it is.                                                     *)
(***************************************************************************)
CbV(name) == [k |-> "function", name |-> name]

HeldValues == {IntV(0), NoneV, Nothing, Exc("ValueError", StrV("bad"), NoneV)}
StartResults == {Success(v) : v \in HeldValues} \cup {Error(e) : e \in HeldValues}
Messages == {NoneV, StrV(""), StrV("boom")}
Fallbacks == {IntV(0), IntV(1)}

OpsInit ==
    /\ FlowInit
    /\ cur \in StartResults
    /\ lastOp = NoOp
    /\ steps = 0
    /\ sticky = (IF cur.k = "Error" THEN cur ELSE Absent)
    /\ laterCalls = 0
    /\ pyCur = NoneV
    /\ pyLast = NoOp

\* The call cur.op(a, b), which did `did`.
MethodCall(op, a, b, did) ==
    LET chains == op \in {"map", "map_err", "and_then", "or_else"}
        next == IF chains /\ did.out.k = "return" THEN did.out.v ELSE cur
    IN  /\ steps < MaxChain
        /\ IsResult(next)
        /\ steps' = steps + 1
        /\ lastOp' = [op |-> op, recv |-> cur, a |-> a, b |-> b,
                      out |-> did.out, calls |-> did.calls]
        /\ cur' = next
        /\ sticky' = IF op \in {"map", "and_then"} /\ sticky # Absent THEN sticky
                     ELSE IF next.k = "Error" THEN next
                     ELSE Absent
        /\ laterCalls' = IF op \in {"map", "and_then"} /\ sticky # Absent
                         THEN laterCalls + Len(did.calls)
                         ELSE IF op \in {"map_err", "or_else"} THEN 0
                         ELSE laterCalls
        /\ UNCHANGED <<flowVars, pyCur, pyLast>>

IsOk == MethodCall("is_ok", NoneV, NoneV, Did(Return(BoolV(is_ok(cur))), <<>>))
IsErr == MethodCall("is_err", NoneV, NoneV, Did(Return(BoolV(is_err(cur))), <<>>))
Bool == MethodCall("bool", NoneV, NoneV, Did(Return(BoolV(bool(cur))), <<>>))
Unwrap(msg) == MethodCall("unwrap", msg, NoneV, Did(unwrap(cur, msg), <<>>))
UnwrapErr(msg) == MethodCall("unwrap_err", msg, NoneV, Did(unwrap_err(cur, msg), <<>>))
UnwrapOr(fallback) ==
    MethodCall("unwrap_or", fallback, NoneV, Did(unwrap_or(cur, fallback), <<>>))
UnwrapOrElse(thunk) ==
    MethodCall("unwrap_or_else", CbV(thunk), NoneV, unwrap_or_else(cur, thunk))
Map(cb) == MethodCall("map", CbV(cb), NoneV, map(cur, cb))
MapErr(cb) == MethodCall("map_err", CbV(cb), NoneV, map_err(cur, cb))
MapOr(default, cb) == MethodCall("map_or", default, CbV(cb), map_or(cur, default, cb))
MapOrElse(thunk, cb) ==
    MethodCall("map_or_else", CbV(thunk), CbV(cb), map_or_else(cur, thunk, cb))
AndThen(cb) == MethodCall("and_then", CbV(cb), NoneV, and_then(cur, cb))
OrElse(cb) == MethodCall("or_else", CbV(cb), NoneV, or_else(cur, cb))
Ok == MethodCall("ok", NoneV, NoneV, Did(Result_ok(cur), <<>>))
Err == MethodCall("err", NoneV, NoneV, Did(Result_err(cur), <<>>))

OpsNext ==
    \/ IsOk
    \/ IsErr
    \/ Bool
    \/ \E msg \in Messages : Unwrap(msg)
    \/ \E msg \in Messages : UnwrapErr(msg)
    \/ \E fallback \in Fallbacks : UnwrapOr(fallback)
    \/ \E thunk \in Thunks : UnwrapOrElse(thunk)
    \/ \E cb \in MapCallbacks : Map(cb)
    \/ \E cb \in MapCallbacks : MapErr(cb)
    \/ \E default \in Fallbacks, cb \in MapCallbacks : MapOr(default, cb)
    \/ \E thunk \in Thunks, cb \in MapCallbacks : MapOrElse(thunk, cb)
    \/ \E cb \in ThenCallbacks : AndThen(cb)
    \/ \E cb \in ThenCallbacks : OrElse(cb)
    \/ Ok
    \/ Err

SpecOps == OpsInit /\ [][OpsNext]_vars

(***************************************************************************)
(* The two modules side by side: every step makes the same call, with the  *)
(* same arguments, on the simple_monads Result and on the pyadt Result.    *)
(***************************************************************************)
FnOutcomes ==
    {Return(v) : v \in HeldValues} \cup {Raise(e) : e \in InputExceptions}
ResultOutcomes ==
    {Return(r) : r \in StartResults} \cup {Raise(e) : e \in InputExceptions}

PairInit ==
    /\ FlowInit
    /\ cur \in StartResults
    /\ pyCur = cur
    /\ lastOp = NoOp
    /\ pyLast = NoOp
    /\ steps = 0
    /\ sticky = Absent
    /\ laterCalls = 0

\* The Result the next call is made on, after a call with outcome out.
NextResult(op, out, now) ==
    IF /\ op \in {"map", "map_err", "and_then", "or_else", "wrap_result", "unwrap_result"}
       /\ out.k = "return"
       /\ IsResult(out.v)
    THEN out.v
    ELSE now

\* One call made in both modules: simple_monads did `did`, pyadt did `pyDid`.
\* recv and pyRecv are the receivers (Absent for a decorator), a and b the
\* arguments.
PairCall(op, recv, pyRecv, a, b, did, pyDid) ==
    /\ steps < MaxChain
    /\ steps' = steps + 1
    /\ lastOp' = [op |-> op, recv |-> recv, a |-> a, b |-> b,
                  out |-> did.out, calls |-> did.calls]
    /\ pyLast' = [op |-> op, recv |-> pyRecv, a |-> a, b |-> b,
                  out |-> pyDid.out, calls |-> pyDid.calls]
    /\ cur' = NextResult(op, did.out, cur)
    /\ pyCur' = NextResult(op, pyDid.out, pyCur)
    /\ UNCHANGED <<flowVars, sticky, laterCalls>>

\* r.<method>(a, b) in simple_monads; repr(r) for op "repr".
Method(r, op, a, b) ==
    CASE op = "is_ok" -> Did(Return(BoolV(is_ok(r))), <<>>)
      [] op = "is_err" -> Did(Return(BoolV(is_err(r))), <<>>)
      [] op = "bool" -> Did(Return(BoolV(bool(r))), <<>>)
      [] op = "unwrap" -> Did(unwrap(r, a), <<>>)
      [] op = "unwrap_err" -> Did(unwrap_err(r, a), <<>>)
      [] op = "unwrap_or" -> Did(unwrap_or(r, a), <<>>)
      [] op = "unwrap_or_else" -> unwrap_or_else(r, a.name)
      [] op = "map" -> map(r, a.name)
      [] op = "map_err" -> map_err(r, a.name)
      [] op = "map_or" -> map_or(r, a, b.name)
      [] op = "map_or_else" -> map_or_else(r, a.name, b.name)
      [] op = "and_then" -> and_then(r, a.name)
      [] op = "or_else" -> or_else(r, a.name)
      [] op = "ok" -> Did(Result_ok(r), <<>>)
      [] op = "err" -> Did(Result_err(r), <<>>)
      [] op = "repr" ->
           Did(IF r.k = "Success" THEN Success_repr(r) ELSE Error_repr(r), <<>>)

\* cur.op(a, b) and pyCur.op(a, b)
PairMethod(op, a, b) ==
    PairCall(op, cur, pyCur, a, b, Method(cur, op, a, b), pyadt_Method(pyCur, op, a, b))

\* wrap_result(catch)(f)(): f has outcome f in simple_monads and pyF in pyadt
PairWrap(catch, f, pyF) ==
    PairCall("wrap_result", Absent, Absent,
             IF f \in FnOutcomes THEN f ELSE CbV("returns_current"), NoneV,
             Did(wrap_result(catch, f), <<>>), Did(pyadt_wrap_result(catch, pyF), <<>>))

\* unwrap_result(g)(): g has outcome g in simple_monads and pyG in pyadt
PairUnwrapResult(g, pyG) ==
    PairCall("unwrap_result", Absent, Absent,
             IF g \in ResultOutcomes THEN g ELSE CbV("returns_current"), NoneV,
             Did(unwrap_result(g), <<>>), Did(pyadt_unwrap_result(pyG), <<>>))

PairNext ==
    \/ PairMethod("is_ok", NoneV, NoneV)
    \/ PairMethod("is_err", NoneV, NoneV)
    \/ PairMethod("bool", NoneV, NoneV)
    \/ \E msg \in Messages : PairMethod("unwrap", msg, NoneV)
    \/ \E msg \in Messages : PairMethod("unwrap_err", msg, NoneV)
    \/ \E fallback \in Fallbacks : PairMethod("unwrap_or", fallback, NoneV)
    \/ \E thunk \in Thunks : PairMethod("unwrap_or_else", CbV(thunk), NoneV)
    \/ \E cb \in MapCallbacks : PairMethod("map", CbV(cb), NoneV)
    \/ \E cb \in MapCallbacks : PairMethod("map_err", CbV(cb), NoneV)
    \/ \E default \in Fallbacks, cb \in MapCallbacks :
          PairMethod("map_or", default, CbV(cb))
    \/ \E thunk \in Thunks, cb \in MapCallbacks :
          PairMethod("map_or_else", CbV(thunk), CbV(cb))
    \/ \E cb \in ThenCallbacks : PairMethod("and_then", CbV(cb), NoneV)
    \/ \E cb \in ThenCallbacks : PairMethod("or_else", CbV(cb), NoneV)
    \/ PairMethod("ok", NoneV, NoneV)
    \/ PairMethod("err", NoneV, NoneV)
    \/ PairMethod("repr", NoneV, NoneV)
    \/ \E catch \in CatchSets, f \in FnOutcomes : PairWrap(catch, f, f)
    \/ \E catch \in CatchSets : PairWrap(catch, Return(cur), Return(pyCur))
    \/ \E g \in ResultOutcomes : PairUnwrapResult(g, g)
    \/ PairUnwrapResult(Return(cur), Return(pyCur))

SpecPair == PairInit /\ [][PairNext]_vars

(***************************************************************************)
(* Properties of propagate and stop (checked under Spec).                  *)
(***************************************************************************)
IsSignal(o) == o.k = "raise" /\ isinstance(o.exc, "Propagation")

\* C1: under stop(f), propagate() on Success(v) gives v and f goes on; the
\* first propagate() on Error(e) ends f there (no statement of f runs after
\* it) and stop(f) returns Error(e); when f returns r with no propagate() on
\* an Error, stop(f) returns Success(r).
C1_StopEndsAtPropagate ==
    /\ \A i \in 1..Len(stack) : ~stack[i].after
    /\ ~done.after
    /\ (done.kind = "propagate" /\ done.in.v.k = "Success") =>
          /\ done.out = Return(done.in.v.held)
          /\ acc = done.in.v.held
          /\ Running
    /\ (done.kind = "propagate" /\ done.in.v.k = "Error") => ~Running
    /\ (done.kind = "stop" /\ done.prop # Absent) =>
          done.out = Return(Error(done.prop))
    /\ (done.kind = "stop" /\ done.prop = Absent /\ done.in.k = "return") =>
          done.out = Return(Success(done.in.v))

C1_Witness ==
    /\ done.kind = "stop"
    /\ done.prop # Absent
    /\ done.out = Return(Error(done.prop))
    /\ ~done.after

\* C2: a propagation signal passes unchanged through every frame that is not
\* a stop boundary (a plain function, a wrap_result with any catch set, an
\* unwrap_result) and the stop boundary that gets it returns Error(e).
C2_SignalPassesEveryFrame ==
    /\ (done.kind \in {"fn", "wrap_result", "unwrap_result"} /\ IsSignal(done.in)) =>
          done.out = done.in
    /\ (done.kind = "stop" /\ IsSignal(done.in)) =>
          done.out = Return(Error(done.in.exc.err))

\* C3: a stop boundary that gets a signal absorbs it: its call returns
\* Error(e) as a value, its caller goes on and no boundary around it sees
\* the signal; an outer boundary that has an inner one absorb a signal still
\* returns Error(e2) for the outer function's own propagate() on Error(e2),
\* and Success(r) when the outer function returns r.
C3_NestedStop ==
    /\ (done.kind = "stop" /\ IsSignal(done.in)) =>
          /\ done.out = Return(Error(done.in.exc.err))
          /\ signal = Absent
          /\ acc = Error(done.in.exc.err)
          /\ (stack # <<>> /\ Top.kind = "fn") => Running
    /\ (done.kind = "stop" /\ done.absorbed # Absent /\ done.prop # Absent) =>
          done.out = Return(Error(done.prop))
    /\ (done.kind = "stop" /\ done.absorbed # Absent /\ done.in.k = "return") =>
          done.out = Return(Success(done.in.v))

C3_Witness ==
    /\ done.kind = "stop"
    /\ done.absorbed # Absent
    /\ done.prop # Absent
    /\ done.prop # done.absorbed
    /\ done.out = Return(Error(done.prop))

(***************************************************************************)
(* Properties of wrap_result and unwrap_result (checked under Spec).       *)
(***************************************************************************)
WrapResultContract ==
    done.kind = "wrap_result" =>
       /\ done.in.k = "return" => done.out = Return(Success(done.in.v))
       /\ (done.in.k = "raise" /\ Matches(done.in.exc, done.catch)) =>
             done.out = Return(Error(done.in.exc))
       /\ (done.in.k = "raise" /\ ~Matches(done.in.exc, done.catch)) =>
             done.out = done.in

\* C4 as stated: ... and with the default catch set the wrapped computation
\* never exits by a failure.
C4_Original ==
    /\ WrapResultContract
    /\ (done.kind = "wrap_result" /\ done.catch = DefaultCatch) =>
          done.out.k = "return"

\* C4: wrap_result(C)(f) returns Success(x) when f returns x, Error(failure)
\* holding the failure f raised when it matches C, and lets it leave
\* unconverted when it does not; the default catch set matches every failure
\* that is an Exception, and a failure that is not (a KeyboardInterrupt)
\* leaves the wrapped computation unconverted.
C4_WrapResult ==
    /\ WrapResultContract
    /\ (done.kind = "wrap_result" /\ done.catch = DefaultCatch /\ done.in.k = "raise") =>
          IF isinstance(done.in.exc, "Exception")
          THEN done.out = Return(Error(done.in.exc))
          ELSE done.out = done.in

C4_Witness ==
    /\ done.kind = "wrap_result"
    /\ done.catch = DefaultCatch
    /\ done.in.k = "raise"
    /\ ~isinstance(done.in.exc, "Exception")
    /\ done.out = done.in

UnwrapResultContract ==
    (done.kind = "unwrap_result" /\ done.in.k = "return" /\ IsResult(done.in.v)) =>
       LET g == done.in.v IN
       /\ g.k = "Success" => done.out = Return(g.held)
       /\ (g.k = "Error" /\ isinstance(g.held, "Exception")) =>
             done.out = Raise(g.held)
       /\ (g.k = "Error" /\ ~isinstance(g.held, "Exception")) =>
             done.out = Raise(ErrorWrapper(g.held))
       /\ g.k = "Error" => done.out.k = "raise"

RaisesUnwrapError == done.out.k = "raise" /\ done.out.exc.cls = "UnwrapError"

\* C5 as stated: ... and it never raises UnwrapError.
C5_Original ==
    /\ UnwrapResultContract
    /\ (done.kind = "unwrap_result" /\ done.in.k = "return" /\ IsResult(done.in.v)) =>
          ~RaisesUnwrapError

\* C5: unwrap_result(g) returns x when g returns Success(x), raises e itself
\* when g returns Error(e) with e error-like, raises ErrorWrapper(e) when e
\* is not error-like, and never returns a value for an Error; the only
\* UnwrapError it raises is an e that is itself an UnwrapError.
C5_UnwrapResult ==
    /\ UnwrapResultContract
    /\ (done.kind = "unwrap_result" /\ done.in.k = "return" /\ IsResult(done.in.v)
          /\ RaisesUnwrapError) =>
          done.in.v = Error(done.out.exc)

C5_Witness ==
    /\ done.kind = "unwrap_result"
    /\ done.in.k = "return"
    /\ IsResult(done.in.v)
    /\ RaisesUnwrapError
    /\ done.in.v = Error(done.out.exc)

\* unwrap_result(wrap_result()(f)) has the outcome of f.
UnwrapOfWrap ==
    (done.kind = "unwrap_result" /\ done.sub.kind = "wrap_result"
       /\ done.sub.catch = DefaultCatch) =>
       done.out = done.sub.in

\* wrap_result()(unwrap_result(g)), g returning a Result
WrapOfUnwrap ==
    /\ done.kind = "wrap_result"
    /\ done.catch = DefaultCatch
    /\ done.sub.kind = "unwrap_result"
    /\ done.sub.in.k = "return"
    /\ IsResult(done.sub.in.v)

\* C10 as stated: ... and wrap_result()(unwrap_result(g)) returns the Result
\* g returns, for Error(e) with e error-like or not.
C10_Original ==
    /\ UnwrapOfWrap
    /\ WrapOfUnwrap => done.out = Return(done.sub.in.v)

\* C10: unwrap_result(wrap_result()(f)) has the outcome of f on every input;
\* wrap_result()(unwrap_result(g)) returns the Result g returns for
\* Success(x) and for Error(e) with e error-like, and Error(ErrorWrapper(e))
\* for Error(e) with e not error-like.
C10_Inverse ==
    /\ UnwrapOfWrap
    /\ WrapOfUnwrap =>
          LET g == done.sub.in.v IN
          IF g.k = "Success" \/ isinstance(g.held, "Exception")
          THEN done.out = Return(g)
          ELSE done.out = Return(Error(ErrorWrapper(g.held)))

C10_Witness ==
    /\ WrapOfUnwrap
    /\ done.sub.in.v.k = "Error"
    /\ ~isinstance(done.sub.in.v.held, "Exception")
    /\ done.out = Return(Error(ErrorWrapper(done.sub.in.v.held)))

(***************************************************************************)
(* Properties of the methods (checked under SpecOps).                      *)
(***************************************************************************)
WrongUnwrap ==
    \/ lastOp.op = "unwrap" /\ lastOp.recv.k = "Error"
    \/ lastOp.op = "unwrap_err" /\ lastOp.recv.k = "Success"

\* C6: Success(v).unwrap_err() fails with UnwrapError; Error(e).unwrap()
\* fails with UnwrapError whose cause is e when e is error-like and
\* ErrorWrapper(e) otherwise; Success(v).unwrap() returns v and
\* Error(e).unwrap_err() returns e; no other method call fails.
C6_OnlyWrongUnwrapsFail ==
    lastOp.op # "none" =>
       LET r == lastOp.recv
           o == lastOp.out
       IN  /\ (lastOp.op = "unwrap_err" /\ r.k = "Success") =>
                  o.k = "raise" /\ o.exc.cls = "UnwrapError"
           /\ (lastOp.op = "unwrap" /\ r.k = "Error") =>
                  /\ o.k = "raise"
                  /\ o.exc.cls = "UnwrapError"
                  /\ o.exc.cause = IF isinstance(r.held, "Exception")
                                   THEN r.held
                                   ELSE ErrorWrapper(r.held)
           /\ (lastOp.op = "unwrap" /\ r.k = "Success") => o = Return(r.held)
           /\ (lastOp.op = "unwrap_err" /\ r.k = "Error") => o = Return(r.held)
           /\ o.k = "raise" => WrongUnwrap

C6_Witness ==
    /\ lastOp.op = "unwrap"
    /\ lastOp.recv.k = "Error"
    /\ isinstance(lastOp.recv.held, "Exception")
    /\ lastOp.out.k = "raise"
    /\ lastOp.out.exc.cause = lastOp.recv.held

\* C7: the UnwrapError of Error(e).unwrap(msg) and of
\* Success(v).unwrap_err(msg) carries msg whenever msg is given, the empty
\* string included, and the default message only when no msg is given.
C7_MessageRule ==
    (lastOp.op \in {"unwrap", "unwrap_err"} /\ lastOp.out.k = "raise") =>
       lastOp.out.exc.arg =
          IF lastOp.a.k # "None" THEN lastOp.a
          ELSE IF lastOp.op = "unwrap" THEN DefaultUnwrapMsg
          ELSE DefaultUnwrapErrMsg

\* C8: map and and_then give an Error back unchanged and map_err and or_else
\* a Success, without invoking the callback; once a chain of map/and_then
\* calls has reached Error(e) it stays Error(e) and no callback runs;
\* Success(v).map(f) = Success(f(v)) and Success(v).and_then(f) = f(v).
C8_ShortCircuit ==
    /\ (lastOp.op \in {"map", "and_then"} /\ lastOp.recv.k = "Error") =>
          lastOp.out = Return(lastOp.recv) /\ lastOp.calls = <<>>
    /\ (lastOp.op \in {"map_err", "or_else"} /\ lastOp.recv.k = "Success") =>
          lastOp.out = Return(lastOp.recv) /\ lastOp.calls = <<>>
    /\ sticky # Absent => cur = sticky /\ laterCalls = 0
    /\ (lastOp.op = "map" /\ lastOp.recv.k = "Success") =>
          /\ lastOp.out = Return(Success(Call(lastOp.a.name, lastOp.recv.held)))
          /\ lastOp.calls = <<lastOp.a.name>>
    /\ (lastOp.op = "and_then" /\ lastOp.recv.k = "Success") =>
          /\ lastOp.out = Return(Call(lastOp.a.name, lastOp.recv.held))
          /\ lastOp.calls = <<lastOp.a.name>>

\* Error(1) is no starting Result: the chain reached it through a callback.
C8_Witness ==
    /\ steps >= 2
    /\ lastOp.op = "and_then"
    /\ lastOp.recv = Error(IntV(1))
    /\ sticky = lastOp.recv
    /\ cur = sticky

\* C9: exactly one of r.ok() and r.err() is present: ok() is present(v) for
\* Success(v) and absent for an Error, err() is present(e) for Error(e) and
\* absent for a Success, whatever the held value is (a falsy one, None, the
\* absent value itself); this agrees with is_ok(), is_err() and truthiness.
Present(m) == m.k = "Something"

C9_Duality ==
    /\ LET o == Result_ok(cur)
           e == Result_err(cur)
       IN  /\ o.k = "return" /\ e.k = "return"
           /\ Present(o.v) # Present(e.v)
           /\ cur.k = "Success" => o.v = Something(cur.held) /\ e.v = Nothing
           /\ cur.k = "Error" => e.v = Something(cur.held) /\ o.v = Nothing
           /\ Present(o.v) = is_ok(cur)
           /\ Present(e.v) = is_err(cur)
           /\ Present(o.v) = bool(cur)
    /\ lastOp.op = "ok" =>
          lastOp.out = Return(IF lastOp.recv.k = "Success"
                              THEN Something(lastOp.recv.held) ELSE Nothing)
    /\ lastOp.op = "err" =>
          lastOp.out = Return(IF lastOp.recv.k = "Error"
                              THEN Something(lastOp.recv.held) ELSE Nothing)

C9_Witness ==
    /\ lastOp.op = "ok"
    /\ lastOp.recv.k = "Success"
    /\ ~Truthy(lastOp.recv.held)
    /\ lastOp.out = Return(Something(lastOp.recv.held))

(***************************************************************************)
(* What stop does with a failure that is no signal (checked under Spec).   *)
(***************************************************************************)
OtherFailure == done.in.k = "raise" /\ ~isinstance(done.in.exc, "Propagation")

\* C11: a failure other than the propagation signal (an UnwrapError of a
\* wrong-variant unwrap, an ErrorWrapper, a domain failure) leaves stop(f) as
\* the same failure: the boundary returns no value for it and its caller
\* gets that very exception.
C11_StopPassesOtherFailures ==
    (done.kind = "stop" /\ OtherFailure) =>
       /\ done.out = done.in
       /\ signal = done.in.exc

C11_Witness ==
    /\ done.kind = "stop"
    /\ OtherFailure
    /\ done.in.exc.cls = "UnwrapError"
    /\ done.sub.kind = "fn"
    /\ done.out = done.in
    /\ signal = done.in.exc

\* The same for an ErrorWrapper raised by an unwrap_result under the boundary.
C11_WitnessErrorWrapper ==
    /\ done.kind = "stop"
    /\ done.in.k = "raise"
    /\ done.in.exc.cls = "ErrorWrapper"
    /\ done.out = done.in

(***************************************************************************)
(* The two modules compared (checked under SpecPair).                      *)
(***************************************************************************)
\* C12 as stated: the two modules give the same outcome on every operation
\* both have, and simple_monads only adds propagate, stop and Propagation
\* (so every other call, repr(r) included, comes out the same).
C12_Original ==
    /\ pyLast = lastOp
    /\ pyCur = cur

\* C12: on every operation of the shared surface (the fourteen methods,
\* truthiness, wrap_result, unwrap_result), for every input and every
\* sequence of such calls, pyadt and simple_monads give the same outcome: the
\* same returned variant and held value, or a failure of the same kind,
\* message and cause, with the same callbacks invoked.  Besides propagate,
\* stop and Propagation, simple_monads adds a __repr__: repr(r) is
\* Error(<held>) / Success(<held>) there and the dataclass's
\* Error(_held=<held>) / Success(_held=<held>) in pyadt.
C12_SameOutcome ==
    /\ pyCur = cur
    /\ lastOp.op # "repr" => pyLast = lastOp
    /\ lastOp.op = "repr" =>
          /\ pyLast.recv = lastOp.recv
          /\ lastOp.out = Return(ReprText(IF lastOp.recv.k = "Success"
                                          THEN "Success(" ELSE "Error(",
                                          lastOp.recv.held, ")"))
          /\ pyLast.out = Return(ReprText(IF lastOp.recv.k = "Success"
                                          THEN "Success(_held=" ELSE "Error(_held=",
                                          lastOp.recv.held, ")"))

\* Two calls with equal outcomes in both modules, the second a failing
\* unwrap("") on an Error; then the one call that differs.
C12_Witness ==
    /\ steps >= 2
    /\ lastOp.op = "unwrap"
    /\ lastOp.a = StrV("")
    /\ lastOp.out.k = "raise"
    /\ lastOp.out.exc.cls = "UnwrapError"
    /\ pyLast.out = lastOp.out
    /\ pyCur = cur
    /\ cur.k = "Error"

C12_WitnessRepr ==
    /\ lastOp.op = "repr"
    /\ pyLast.recv = lastOp.recv
    /\ pyLast.out # lastOp.out

====
